---- MODULE Spec2Model ----
(***************************************************************************)
(* Model of Cantera/src/equil/vcs_rxnadj.cpp: the reaction adjustment      *)
(* solver vcs_rxn_adj_cg, the Hessian diagonal corrector                   *)
(* vcs_Hessian_diag_adj (with vcs_Hessian_actCoeff_diag) and the line      *)
(* search vcs_line_search.                                                 *)
(*                                                                         *)
(* The doubles of the source are modelled by exact decimal rationals       *)
(* n/d * 10^e (records [n, d, e] in canonical form), so that 1.0e10 and    *)
(* 1.0e-10 keep their magnitude inside 32-bit integer arithmetic.          *)
(***************************************************************************)
EXTENDS Integers, Sequences, FiniteSets, TLC

VARIABLES
  \* ---- problem data read by vcs_rxn_adj_cg --------------------------------
  m_numComponents,      \* number of component species (species 0..nc-1)
  m_numRxnRdc,          \* number of formation reactions
  PhaseID,              \* PhaseID[kspec]: phase of species kspec
  sc,                   \* sc[irxn][j]: stoichiometric coefficient matrix
  dg,                   \* dg[irxn]: free energy change of reaction irxn
  tolmaj2,              \* convergence tolerance
  \* ---- solver state written by vcs_rxn_adj_cg -----------------------------
  soln,                 \* soln[kspec]: mole numbers
  TPhMoles,             \* TPhMoles[iph]: total moles of each phase
  ds,                   \* ds[kspec]: reaction adjustments
  spStatus,             \* spStatus[irxn]: species status
  m_numRxnMinorZeroed,  \* counter of zeroed minor reactions
  \* ---- locals of one call of vcs_rxn_adj_cg -------------------------------
  pc,                   \* "idle" | "loop" | "done"
  irxn,                 \* loop index
  k,                    \* index of the species to be zeroed (declared outside the loop)
  soldel,               \* return code under construction
  ret,                  \* value returned by the last call (-1: none yet)
  calls,                \* number of calls made so far
  \* ---- observation of one call ---------------------------------------------
  entry,                \* soln, TPhMoles, ds, spStatus as they were on entry
  branch,               \* branch[irxn]: the branch reaction irxn took in this call
  zeroed,               \* species set to zero by soln[k] = 0.0 (-1: none)
  dssApplied,           \* the dss applied by the phase elimination (Zero: none)
  \* ---- vcs_Hessian_diag_adj -------------------------------------------------
  dLnActCoeffdMolNum,   \* Jacobian of the log activity coefficients
  hessianDiag_Ideal,    \* argument of vcs_Hessian_diag_adj
  hpc,                  \* "idle" | "call" | "returned" | "exited"
  diag,                 \* value returned by vcs_Hessian_diag_adj
  \* ---- vcs_line_search -------------------------------------------------------
  lpc,                  \* "idle" | "start" | "full" | "bisect" | "finalize" | "returned" | "moved"
  dx_orig,              \* proposed step
  deltaGOrig,           \* deltaG at dx = 0
  dx,                   \* current step
  its,                  \* bisection counter
  deltaG,               \* deltaG of the last trial evaluated
  trials,               \* sequence of the steps at which deltaG was evaluated
  interp,               \* trial step the returned step was interpolated from (Zero: none)
  deltaGNew             \* deltaG re-evaluated at the returned step

adjVars  == <<m_numComponents, m_numRxnRdc, PhaseID, sc, dg, tolmaj2, soln,
              TPhMoles, ds, spStatus, m_numRxnMinorZeroed, pc, irxn, k, soldel,
              ret, calls, entry, branch, zeroed, dssApplied>>
hessVars == <<dLnActCoeffdMolNum, hessianDiag_Ideal, hpc, diag>>
lsVars   == <<lpc, dx_orig, deltaGOrig, dx, its, deltaG, trials, interp, deltaGNew>>
vars     == <<adjVars, hessVars, lsVars>>

-----------------------------------------------------------------------------
(* Exact arithmetic on decimal rationals n/d * 10^e.                         *)
(* Canonical form: d > 0, gcd(n, d) = 1, 5 divides neither n nor d; zero is  *)
(* [n |-> 0, d |-> 1, e |-> 0].  Equal values have equal records.            *)

Abs(x) == IF x < 0 THEN -x ELSE x

RECURSIVE Gcd(_, _)
Gcd(a, b) == IF b = 0 THEN a ELSE Gcd(b, a % b)

RECURSIVE Pow10(_)
Pow10(p) == IF p = 0 THEN 1 ELSE 10 * Pow10(p - 1)

RECURSIVE Pow2(_)
Pow2(p) == IF p = 0 THEN 1 ELSE 2 * Pow2(p - 1)

Zero == [n |-> 0, d |-> 1, e |-> 0]

RECURSIVE Norm5(_, _, _)
Norm5(n, d, e) ==
  LET g == Gcd(Abs(n), d)
      n1 == n \div g
      d1 == d \div g
  IN  IF n1 % 5 = 0 THEN Norm5(n1 \div 5, d1 * 2, e + 1)
      ELSE IF d1 % 5 = 0 THEN Norm5(n1 * 2, d1 \div 5, e - 1)
      ELSE [n |-> n1, d |-> d1, e |-> e]

Num(n, d, e) ==
  IF n = 0 THEN Zero
  ELSE IF d < 0 THEN Norm5(-n, -d, e) ELSE Norm5(n, d, e)

RInt(i) == Num(i, 1, 0)
One == RInt(1)

Min2(a, b) == IF a < b THEN a ELSE b

RNeg(a) == [n |-> -a.n, d |-> a.d, e |-> a.e]
RAbs(a) == [n |-> Abs(a.n), d |-> a.d, e |-> a.e]
RSign(a) == IF a.n > 0 THEN 1 ELSE IF a.n < 0 THEN -1 ELSE 0
RMul(a, b) == Num(a.n * b.n, a.d * b.d, a.e + b.e)
RDiv(a, b) == Num(a.n * b.d, a.d * b.n, a.e - b.e)      \* b # Zero
RAdd(a, b) ==
  IF a.n = 0 THEN b
  ELSE IF b.n = 0 THEN a
  ELSE LET m == Min2(a.e, b.e)
       IN  Num(a.n * Pow10(a.e - m) * b.d + b.n * Pow10(b.e - m) * a.d,
               a.d * b.d, m)
RSub(a, b) == RAdd(a, RNeg(b))
RLt(a, b) == RSign(RSub(a, b)) < 0
RLe(a, b) == RSign(RSub(a, b)) <= 0
SQUARE(x) == RMul(x, x)
fabs(x) == RAbs(x)

-----------------------------------------------------------------------------
(* Input domains.                                                           *)

MaxMoles == 2          \* mole numbers range over 0..MaxMoles mole units
MaxCoef  == 1          \* stoichiometric coefficients range over -MaxCoef..MaxCoef
MaxCalls == 2          \* calls of vcs_rxn_adj_cg in one behaviour

MoleUnit == Num(1, 1, 4)                       \* mole numbers are multiples of 1.0e4
MoleVals == {RMul(RInt(i), MoleUnit) : i \in 0..MaxMoles}
CoefVals == {RInt(i) : i \in -MaxCoef..MaxCoef}
DgVals   == {Num(-2, 1, -4), Num(2, 1, -4)}
TolVals  == {Num(1, 1, -4), Num(2, 1, -4)}
Garbage  == Num(7, 1, 0)                       \* a stale entry of ds

\* Problem layouts: number of components, number of reactions, phase of each species.
Layouts ==
  { [nc |-> 1, nr |-> 2, phase |-> (0 :> 0 @@ 1 :> 1 @@ 2 :> 2)],
    [nc |-> 1, nr |-> 2, phase |-> (0 :> 0 @@ 1 :> 0 @@ 2 :> 1)],
    [nc |-> 2, nr |-> 1, phase |-> (0 :> 0 @@ 1 :> 1 @@ 2 :> 2)],
    [nc |-> 2, nr |-> 1, phase |-> (0 :> 0 @@ 1 :> 0 @@ 2 :> 1)] }

-----------------------------------------------------------------------------
(* Program constants.                                                       *)

VCS_SPECIES_MAJOR  == 1
VCS_SPECIES_MINOR  == 0
VCS_SPECIES_ZEROED == -1

ReviveThreshold == Num(-1, 1, -4)      \* -1.0e-4
SeedMoles       == Num(1, 1, -10)      \* 1.0e-10
DssUnbounded    == Num(1, 1, 10)       \* 1.0e10

-----------------------------------------------------------------------------
(* Derived problem data.                                                    *)

NumSpecies == m_numComponents + m_numRxnRdc
Species    == 0..(NumSpecies - 1)
Components == 0..(m_numComponents - 1)
Rxns       == 0..(m_numRxnRdc - 1)
NPhase     == Cardinality({PhaseID[s] : s \in Species})
Phases     == 0..(NPhase - 1)
Members(p) == {s \in Species : PhaseID[s] = p}

ir(i) == i + m_numComponents

SingleSpecies(p) == Cardinality(Members(p)) = 1
SSPhase(s) == SingleSpecies(PhaseID[s])

RECURSIVE SumOver(_, _)
SumOver(S, f) ==
  IF S = {} THEN Zero
  ELSE LET x == CHOOSE y \in S : TRUE IN RAdd(f[x], SumOver(S \ {x}, f))

PhaseSum(molNum, p) == SumOver(Members(p), molNum)

DnPhase(i, p) ==
  RAdd(IF PhaseID[ir(i)] = p THEN One ELSE Zero,
       SumOver({j \in Components : PhaseID[j] = p}, sc[i]))

-----------------------------------------------------------------------------
(* vcs_rxn_adj_cg: the body of the loop over the formation reactions.       *)

\* Curvature with the phase term subtracted for single-species phases too.
Curvature_AllPhases(i) ==
  LET kspec    == ir(i)
      s0       == IF SSPhase(kspec) THEN Zero ELSE RDiv(One, soln[kspec])
      compTerm == [j \in Components |->
                     IF ~SSPhase(j) THEN RDiv(SQUARE(sc[i][j]), soln[j]) ELSE Zero]
      phTerm   == [p \in Phases |->
                     IF RLt(Zero, TPhMoles[p])
                     THEN RDiv(SQUARE(DnPhase(i, p)), TPhMoles[p]) ELSE Zero]
  IN  RSub(RAdd(s0, SumOver(Components, compTerm)), SumOver(Phases, phTerm))

\* Diagonal curvature s of reaction i (source lines 137-147).
Curvature(i) ==
  LET kspec    == ir(i)
      s0       == IF SSPhase(kspec) THEN Zero ELSE RDiv(One, soln[kspec])
      compTerm == [j \in Components |->
                     IF ~SSPhase(j) THEN RDiv(SQUARE(sc[i][j]), soln[j]) ELSE Zero]
      phTerm   == [p \in Phases |->
                     IF ~SingleSpecies(p) /\ RLt(Zero, TPhMoles[p])
                     THEN RDiv(SQUARE(DnPhase(i, p)), TPhMoles[p]) ELSE Zero]
  IN  RSub(RAdd(s0, SumOver(Components, compTerm)), SumOver(Phases, phTerm))

\* The Newton step on the diagonal model (source line 149).
NewtonDs(dgi, s) == RDiv(RNeg(dgi), s)

\* dg > 0: scan of the components with a positive coefficient (lines 165-173).
RECURSIVE ScanPos(_, _, _, _)
ScanPos(i, j, dss, kk) ==
  IF j >= m_numComponents THEN [dss |-> dss, k |-> kk]
  ELSE IF RSign(sc[i][j]) > 0
       THEN LET xx == RDiv(soln[j], sc[i][j])
            IN  IF RLt(xx, dss) THEN ScanPos(i, j + 1, xx, j)
                ELSE ScanPos(i, j + 1, dss, kk)
       ELSE ScanPos(i, j + 1, dss, kk)

\* dg <= 0: scan of the components with a negative coefficient (lines 177-185).
RECURSIVE ScanNeg(_, _, _, _)
ScanNeg(i, j, dss, kk) ==
  IF j >= m_numComponents THEN [dss |-> dss, k |-> kk]
  ELSE IF RSign(sc[i][j]) < 0
       THEN LET xx == RDiv(RNeg(soln[j]), sc[i][j])
            IN  IF RLt(xx, dss) THEN ScanNeg(i, j + 1, xx, j)
                ELSE ScanNeg(i, j + 1, dss, kk)
       ELSE ScanNeg(i, j + 1, dss, kk)

\* dss and k as the code leaves them before the test dss != 0.0 (lines 162-186).
\* In the branch dg <= 0 the scan starts from the k left by earlier reactions.
Bound(i) ==
  IF RSign(dg[i]) > 0
  THEN LET r == ScanPos(i, 0, soln[ir(i)], ir(i))
       IN  [dss |-> RNeg(r.dss), k |-> r.k]
  ELSE ScanNeg(i, 0, DssUnbounded, k)

\* soln[j] += dss * sc[irxn][j] over the components, in index order (lines 198-201).
RECURSIVE AddComponents(_, _, _, _)
AddComponents(i, j, dss, st) ==
  IF j >= m_numComponents THEN st
  ELSE LET inc == RMul(dss, sc[i][j])
       IN  AddComponents(i, j + 1, dss,
             [soln     |-> [st.soln EXCEPT ![j] = RAdd(@, inc)],
              TPhMoles |-> [st.TPhMoles EXCEPT ![PhaseID[j]] = RAdd(@, inc)]])

\* The phase elimination update (lines 196-203).
Eliminated(i, dss, kk) ==
  LET kspec == ir(i)
      st0   == [soln     |-> [soln EXCEPT ![kspec] = RAdd(@, dss)],
                TPhMoles |-> [TPhMoles EXCEPT ![PhaseID[kspec]] = RAdd(@, dss)]]
      st1   == AddComponents(i, 0, dss, st0)
  IN  [soln     |-> [st1.soln EXCEPT ![kk] = Zero],
       TPhMoles |-> [st1.TPhMoles EXCEPT ![PhaseID[kk]] = Zero]]

\* Return code left at its initial value.
SoldelOf_Unset(kk, kspec) == 0

\* The return code of the phase elimination (lines 214-215).
SoldelOf(kk, kspec) == IF kk # kspec THEN 2 ELSE 1

\* The branch conditions of the loop body, in the order the code tests them.
InLoop       == pc = "loop" /\ irxn < m_numRxnRdc
IsDead(i)    == soln[ir(i)] = Zero /\ ~SSPhase(ir(i))
IsConverged_Strict(i) == RLt(fabs(dg[i]), tolmaj2)
IsConverged(i) == RLe(fabs(dg[i]), tolmaj2)
IsMinorSkip(i) == spStatus[i] <= VCS_SPECIES_MINOR /\ RSign(dg[i]) >= 0
IsRegular(i) == ~IsDead(i) /\ ~IsConverged(i) /\ ~IsMinorSkip(i)

problemVars == <<m_numComponents, m_numRxnRdc, PhaseID, sc, dg, tolmaj2>>

\* Entry of vcs_rxn_adj_cg (lines 55-58 and 73).  After a nonzero return the
\* caller re-selects the component basis, so a further call follows a return of 0.
Call ==
  /\ pc \in {"idle", "done"}
  /\ pc = "done" => ret = 0
  /\ calls < MaxCalls
  /\ pc' = "loop"
  /\ irxn' = 0
  /\ k' = 0
  /\ soldel' = 0
  /\ calls' = calls + 1
  /\ entry' = [soln |-> soln, TPhMoles |-> TPhMoles, ds |-> ds, spStatus |-> spStatus]
  /\ branch' = [i \in Rxns |-> "none"]
  /\ zeroed' = -1
  /\ dssApplied' = Zero
  /\ UNCHANGED <<problemVars, soln, TPhMoles, ds, spStatus, m_numRxnMinorZeroed, ret>>
  /\ UNCHANGED <<hessVars, lsVars>>

\* Lines 81, 89-95: a zero-moles species of a multispecies phase comes alive.
ComeAlive ==
  /\ InLoop
  /\ IsDead(irxn)
  /\ RLt(dg[irxn], ReviveThreshold)
  /\ ds' = [ds EXCEPT ![ir(irxn)] = SeedMoles]
  /\ spStatus' = [spStatus EXCEPT ![irxn] = VCS_SPECIES_MAJOR]
  /\ m_numRxnMinorZeroed' = m_numRxnMinorZeroed - 1
  /\ branch' = [branch EXCEPT ![irxn] = "alive"]
  /\ irxn' = irxn + 1
  /\ UNCHANGED <<problemVars, soln, TPhMoles, pc, k, soldel, ret, calls, entry,
                 zeroed, dssApplied>>
  /\ UNCHANGED <<hessVars, lsVars>>

\* Lines 81, 96-101: it stays dead.
StillDead ==
  /\ InLoop
  /\ IsDead(irxn)
  /\ ~RLt(dg[irxn], ReviveThreshold)
  /\ ds' = [ds EXCEPT ![ir(irxn)] = Zero]
  /\ branch' = [branch EXCEPT ![irxn] = "dead"]
  /\ irxn' = irxn + 1
  /\ UNCHANGED <<problemVars, soln, TPhMoles, spStatus, m_numRxnMinorZeroed, pc, k,
                 soldel, ret, calls, entry, zeroed, dssApplied>>
  /\ UNCHANGED <<hessVars, lsVars>>

\* Lines 113-120: the reaction is converged; continue.
SkipConverged ==
  /\ InLoop
  /\ ~IsDead(irxn)
  /\ IsConverged(irxn)
  /\ branch' = [branch EXCEPT ![irxn] = "converged"]
  /\ irxn' = irxn + 1
  /\ UNCHANGED <<problemVars, soln, TPhMoles, ds, spStatus, m_numRxnMinorZeroed, pc,
                 k, soldel, ret, calls, entry, zeroed, dssApplied>>
  /\ UNCHANGED <<hessVars, lsVars>>

\* Lines 125-133: a minor or zeroed species that would decrease; continue.
SkipMinor ==
  /\ InLoop
  /\ ~IsDead(irxn)
  /\ ~IsConverged(irxn)
  /\ IsMinorSkip(irxn)
  /\ branch' = [branch EXCEPT ![irxn] = "minor"]
  /\ irxn' = irxn + 1
  /\ UNCHANGED <<problemVars, soln, TPhMoles, ds, spStatus, m_numRxnMinorZeroed, pc,
                 k, soldel, ret, calls, entry, zeroed, dssApplied>>
  /\ UNCHANGED <<hessVars, lsVars>>

\* Lines 137-149: s != 0, the Newton step.
NewtonStep ==
  /\ InLoop
  /\ IsRegular(irxn)
  /\ Curvature(irxn) # Zero
  /\ ds' = [ds EXCEPT ![ir(irxn)] = NewtonDs(dg[irxn], Curvature(irxn))]
  /\ branch' = [branch EXCEPT ![irxn] = "newton"]
  /\ irxn' = irxn + 1
  /\ UNCHANGED <<problemVars, soln, TPhMoles, spStatus, m_numRxnMinorZeroed, pc, k,
                 soldel, ret, calls, entry, zeroed, dssApplied>>
  /\ UNCHANGED <<hessVars, lsVars>>

\* Lines 150-217 with dss != 0: eliminate species k and return at once.
Eliminate ==
  /\ InLoop
  /\ IsRegular(irxn)
  /\ Curvature(irxn) = Zero
  /\ LET b  == Bound(irxn)
         st == Eliminated(irxn, b.dss, b.k)
     IN  /\ b.dss # Zero
         /\ soln' = st.soln
         /\ TPhMoles' = st.TPhMoles
         /\ k' = b.k
         /\ zeroed' = b.k
         /\ dssApplied' = b.dss
         /\ soldel' = SoldelOf(b.k, ir(irxn))
         /\ ret' = SoldelOf(b.k, ir(irxn))
  /\ branch' = [branch EXCEPT ![irxn] = "eliminate"]
  /\ pc' = "done"
  /\ UNCHANGED <<problemVars, ds, spStatus, m_numRxnMinorZeroed, irxn, calls, entry>>
  /\ UNCHANGED <<hessVars, lsVars>>

\* Lines 150-195 with dss == 0: nothing is applied and the loop goes on.
ZeroBound ==
  /\ InLoop
  /\ IsRegular(irxn)
  /\ Curvature(irxn) = Zero
  /\ Bound(irxn).dss = Zero
  /\ k' = Bound(irxn).k
  /\ branch' = [branch EXCEPT ![irxn] = "zerobound"]
  /\ irxn' = irxn + 1
  /\ UNCHANGED <<problemVars, soln, TPhMoles, ds, spStatus, m_numRxnMinorZeroed, pc,
                 soldel, ret, calls, entry, zeroed, dssApplied>>
  /\ UNCHANGED <<hessVars, lsVars>>

\* Lines 224, 242: the loop is over; return soldel.
LoopExit ==
  /\ pc = "loop"
  /\ irxn >= m_numRxnRdc
  /\ pc' = "done"
  /\ ret' = soldel
  /\ UNCHANGED <<problemVars, soln, TPhMoles, ds, spStatus, m_numRxnMinorZeroed, irxn,
                 k, soldel, calls, entry, branch, zeroed, dssApplied>>
  /\ UNCHANGED <<hessVars, lsVars>>

HessIdle ==
  /\ dLnActCoeffdMolNum = <<>>
  /\ hessianDiag_Ideal = Zero
  /\ hpc = "idle"
  /\ diag = Zero

LsIdle ==
  /\ lpc = "idle"
  /\ dx_orig = Zero
  /\ deltaGOrig = Zero
  /\ dx = Zero
  /\ its = 0
  /\ deltaG = Zero
  /\ trials = <<>>
  /\ interp = Zero
  /\ deltaGNew = Zero

\* The state before the first call: a composition with consistent phase totals.
\* Components of multispecies phases have positive mole numbers.
Init ==
  /\ \E L \in Layouts :
       /\ m_numComponents = L.nc
       /\ m_numRxnRdc = L.nr
       /\ PhaseID = L.phase
  /\ sc \in [Rxns -> [Components -> CoefVals]]
  /\ dg \in [Rxns -> DgVals]
  /\ tolmaj2 \in TolVals
  /\ soln \in [Species -> MoleVals]
  /\ \A j \in Components : ~SSPhase(j) => soln[j] # Zero
  /\ TPhMoles = [p \in Phases |-> PhaseSum(soln, p)]
  /\ ds \in {[s \in Species |-> Zero], [s \in Species |-> Garbage]}
  /\ spStatus \in [Rxns -> {VCS_SPECIES_MAJOR, VCS_SPECIES_MINOR, VCS_SPECIES_ZEROED}]
  /\ \A i \in Rxns : spStatus[i] = VCS_SPECIES_MINOR => soln[ir(i)] # Zero
  /\ \A i \in Rxns : spStatus[i] = VCS_SPECIES_ZEROED => soln[ir(i)] = Zero
  /\ m_numRxnMinorZeroed = Cardinality({i \in Rxns : spStatus[i] = VCS_SPECIES_ZEROED})
  /\ pc = "idle"
  /\ irxn = 0
  /\ k = 0
  /\ soldel = 0
  /\ ret = -1
  /\ calls = 0
  /\ entry = [soln |-> soln, TPhMoles |-> TPhMoles, ds |-> ds, spStatus |-> spStatus]
  /\ branch = [i \in Rxns |-> "none"]
  /\ zeroed = -1
  /\ dssApplied = Zero
  /\ HessIdle
  /\ LsIdle

Next ==
  \/ Call
  \/ ComeAlive
  \/ StillDead
  \/ SkipConverged
  \/ SkipMinor
  \/ NewtonStep
  \/ Eliminate
  \/ ZeroBound
  \/ LoopExit

Spec == Init /\ [][Next]_vars

-----------------------------------------------------------------------------
(* vcs_Hessian_diag_adj and vcs_Hessian_actCoeff_diag.                      *)

MaxJ     == 2          \* Jacobian entries range over -MaxJ/3 .. MaxJ/3 in thirds
MaxIdeal == 2          \* hessianDiag_Ideal ranges over 0..MaxIdeal

JVals     == {Num(i, 3, 0) : i \in -MaxJ..MaxJ}
IdealVals == {RInt(i) : i \in 0..MaxIdeal}

HessLayouts ==
  { [nc |-> 1, nr |-> 1, phase |-> (0 :> 0 @@ 1 :> 0)],
    [nc |-> 1, nr |-> 1, phase |-> (0 :> 0 @@ 1 :> 1)] }

ClampFraction == Num(6666, 1, -4)      \* 0.6666

\* Lines 294-320: diagonal contribution of the activity coefficients.
vcs_Hessian_actCoeff_diag(i) ==
  LET kspec == ir(i)
      kph   == PhaseID[kspec]
      J     == dLnActCoeffdMolNum
      inner(l) == SumOver({kk \in Components : PhaseID[kk] = PhaseID[l]},
                          [kk \in Components |->
                             RMul(RMul(sc[i][kk], sc[i][l]), J[kk][l])])
      cross(l) == IF kph = PhaseID[l]
                  THEN RMul(sc[i][l], RAdd(J[kspec][l], J[l][kspec]))
                  ELSE Zero
      term  == [l \in Components |->
                  IF ~SSPhase(l) THEN RAdd(inner(l), cross(l)) ELSE Zero]
  IN  RAdd(J[kspec][kspec], SumOver(Components, term))

\* Corrected diagonal without the clamp of the negative correction.
CorrectedDiag_NoClamp(hessActCoef, ideal) == RAdd(ideal, hessActCoef)

\* Lines 270-277: the corrected diagonal, for hessianDiag_Ideal > 0.
CorrectedDiag(hessActCoef, ideal) ==
  IF RSign(hessActCoef) >= 0 THEN RAdd(ideal, hessActCoef)
  ELSE IF RLt(fabs(hessActCoef), RMul(ClampFraction, ideal))
       THEN RAdd(ideal, hessActCoef)
       ELSE RSub(ideal, RMul(ClampFraction, ideal))

\* Lines 266-269: hessianDiag_Ideal <= 0.0, exit(-1).
Hessian_exit ==
  /\ hpc = "call"
  /\ RSign(hessianDiag_Ideal) <= 0
  /\ hpc' = "exited"
  /\ UNCHANGED <<dLnActCoeffdMolNum, hessianDiag_Ideal, diag>>
  /\ UNCHANGED <<adjVars, lsVars>>

\* Lines 264-277: the corrected diagonal is returned.
Hessian_return ==
  /\ hpc = "call"
  /\ RSign(hessianDiag_Ideal) > 0
  /\ diag' = CorrectedDiag(vcs_Hessian_actCoeff_diag(0), hessianDiag_Ideal)
  /\ hpc' = "returned"
  /\ UNCHANGED <<dLnActCoeffdMolNum, hessianDiag_Ideal>>
  /\ UNCHANGED <<adjVars, lsVars>>

AdjIdle ==
  /\ dg = <<>>
  /\ tolmaj2 = Zero
  /\ soln = <<>>
  /\ TPhMoles = <<>>
  /\ ds = <<>>
  /\ spStatus = <<>>
  /\ m_numRxnMinorZeroed = 0
  /\ pc = "idle"
  /\ irxn = 0
  /\ k = 0
  /\ soldel = 0
  /\ ret = -1
  /\ calls = 0
  /\ entry = <<>>
  /\ branch = <<>>
  /\ zeroed = -1
  /\ dssApplied = Zero

InitHessian ==
  /\ \E L \in HessLayouts :
       /\ m_numComponents = L.nc
       /\ m_numRxnRdc = L.nr
       /\ PhaseID = L.phase
  /\ sc \in [Rxns -> [Components -> CoefVals]]
  /\ dLnActCoeffdMolNum \in [Species -> [Species -> JVals]]
  /\ hessianDiag_Ideal \in IdealVals
  /\ hpc = "call"
  /\ diag = Zero
  /\ AdjIdle
  /\ LsIdle

NextHessian ==
  \/ Hessian_exit
  \/ Hessian_return

SpecHessian == InitHessian /\ [][NextHessian]_vars

-----------------------------------------------------------------------------
(* vcs_line_search.  deltaG_Recalc_Rxn is the oracle: each evaluation at a  *)
(* step not evaluated before may return any value.                          *)

MaxG    == 2           \* deltaG values range over -MaxG..MaxG
MaxStep == 2           \* proposed steps range over -MaxStep..MaxStep
MAXITS  == 10

GVals    == {RInt(i) : i \in -MaxG..MaxG}
StepVals == {RInt(i) : i \in -MaxStep..MaxStep}

\* x < c * forig with forig = fabs(deltaGOrig) + 1.0e-15 and c > 0 (lines 423,
\* 474, 509).  The values of the model lie on a grid coarser than 1.0e-15, on
\* which x < c*(|g0| + 1.0e-15) holds exactly when x <= c*|g0|.
LtScaledForig(x, c, g0) == RLe(x, RMul(c, fabs(g0)))

\* Sign test with the comparison reversed.
SignKept_Reversed(g, g0) == RSign(RMul(g, g0)) < 0

\* Lines 466, 502: deltaG has not switched signs.
SignKept(g, g0) == RSign(RMul(g, g0)) > 0

\* Interpolation from the wrong end of the bracket.
Interpolate_WrongEnd(step, g0, g) ==
  LET slope == RDiv(RSub(g, g0), step)
  IN  RDiv(RNeg(g), slope)

\* Lines 476-477, 511-512: the linear interpolation of the zero crossing.
Interpolate(step, g0, g) ==
  LET slope == RDiv(RSub(g, g0), step)
  IN  RDiv(RNeg(g0), slope)

\* Step quartered instead of halved.
Halve_Quarter(step) == RMul(step, Num(1, 4, 0))

\* Line 491: dx *= 0.5.
Halve(step) == RMul(step, Num(1, 2, 0))

\* Line 509: 1.0 - 0.1 * dx / dx_orig.
DecayFactor(step, orig) == RSub(One, RMul(Num(1, 1, -1), RDiv(step, orig)))

\* Lines 421-449: deltaG at dx = 0 and the immediate returns.
LS_start ==
  /\ lpc = "start"
  /\ \E g0 \in GVals :
       /\ deltaGOrig' = g0
       /\ IF \/ (RSign(g0) > 0 /\ RSign(dx_orig) > 0)
             \/ (RSign(g0) < 0 /\ RSign(dx_orig) < 0)
             \/ g0 = Zero
             \/ dx_orig = Zero
          THEN dx' = Zero /\ lpc' = "returned"
          ELSE dx' = dx_orig /\ lpc' = "full"
  /\ UNCHANGED <<dx_orig, its, deltaG, trials, interp, deltaGNew>>
  /\ UNCHANGED <<adjVars, hessVars>>

\* Lines 451-484: deltaG at the full step.
LS_full ==
  /\ lpc = "full"
  /\ \E g1 \in GVals :
       /\ deltaG' = g1
       /\ trials' = Append(trials, dx_orig)
       /\ IF SignKept(g1, deltaGOrig)
          THEN dx' = dx_orig /\ interp' = interp /\ lpc' = "returned"
          ELSE IF LtScaledForig(fabs(g1), Num(8, 1, -1), deltaGOrig)
          THEN /\ lpc' = "returned"
               /\ IF RSign(RMul(g1, deltaGOrig)) < 0
                  THEN dx' = Interpolate(dx_orig, deltaGOrig, g1) /\ interp' = dx_orig
                  ELSE dx' = dx_orig /\ interp' = interp
          ELSE dx' = dx_orig /\ interp' = interp /\ lpc' = "bisect"
  /\ UNCHANGED <<dx_orig, deltaGOrig, its, deltaGNew>>
  /\ UNCHANGED <<adjVars, hessVars>>

\* Lines 486-516: one pass of the bisection loop.
LS_bisect ==
  /\ lpc = "bisect"
  /\ its < MAXITS
  /\ LET half == Halve(dx)
     IN  \E g \in GVals :
           /\ deltaG' = g
           /\ trials' = Append(trials, half)
           /\ IF SignKept(g, deltaGOrig)
              THEN dx' = half /\ interp' = interp /\ its' = its /\ lpc' = "returned"
              ELSE IF LtScaledForig(fabs(g), DecayFactor(half, dx_orig), deltaGOrig)
              THEN /\ its' = its
                   /\ lpc' = "returned"
                   /\ IF RSign(RMul(g, deltaGOrig)) < 0
                      THEN dx' = Interpolate(half, deltaGOrig, g) /\ interp' = half
                      ELSE dx' = half /\ interp' = interp
              ELSE dx' = half /\ interp' = interp /\ its' = its + 1 /\ lpc' = "bisect"
  /\ UNCHANGED <<dx_orig, deltaGOrig, deltaGNew>>
  /\ UNCHANGED <<adjVars, hessVars>>

\* Lines 486, 518-533: the loop ran MAXITS times; the last trial is returned.
LS_exhausted ==
  /\ lpc = "bisect"
  /\ its >= MAXITS
  /\ lpc' = "returned"
  /\ UNCHANGED <<dx_orig, deltaGOrig, dx, its, deltaG, trials, interp, deltaGNew>>
  /\ UNCHANGED <<adjVars, hessVars>>

\* deltaG_Recalc_Rxn at the composition moved by the returned step: the value
\* of the last trial if the step is that trial, any value at an interpolated step.
LS_moved ==
  /\ lpc = "returned"
  /\ dx # Zero
  /\ IF interp = Zero
     THEN deltaGNew' = deltaG
     ELSE \E g \in GVals : deltaGNew' = g
  /\ lpc' = "moved"
  /\ UNCHANGED <<dx_orig, deltaGOrig, dx, its, deltaG, trials, interp>>
  /\ UNCHANGED <<adjVars, hessVars>>

InitLineSearch ==
  /\ m_numComponents = 1
  /\ m_numRxnRdc = 1
  /\ PhaseID = (0 :> 0 @@ 1 :> 1)
  /\ sc = <<>>
  /\ AdjIdle
  /\ HessIdle
  /\ lpc = "start"
  /\ dx_orig \in StepVals
  /\ deltaGOrig = Zero
  /\ dx = dx_orig
  /\ its = 0
  /\ deltaG = Zero
  /\ trials = <<>>
  /\ interp = Zero
  /\ deltaGNew = Zero

NextLineSearch ==
  \/ LS_start
  \/ LS_full
  \/ LS_bisect
  \/ LS_exhausted
  \/ LS_moved

SpecLineSearch == InitLineSearch /\ [][NextLineSearch]_vars

-----------------------------------------------------------------------------
(* Properties of vcs_rxn_adj_cg, checked under Spec.                        *)

C2_MassBalanceAfterElimination ==
  (pc = "done" /\ zeroed # -1) =>
    /\ \A p \in Phases : TPhMoles[p] = PhaseSum(soln, p)
    /\ soln[zeroed] = Zero

\* C9: in the degenerate case the species zeroed is a participant of the
\* current reaction that attains the bound (kspec or a component with a
\* positive coefficient for dg > 0, a component with a negative coefficient
\* for dg < 0; among tied components the first in index order), the step
\* applied has the magnitude of that bound, and no mole number is negative
\* afterwards.
C9_ZeroedSpeciesAttainsBound ==
  (pc = "done" /\ zeroed # -1) =>
    LET i        == irxn
        kspec    == ir(i)
        n        == entry.soln
        cands    == IF RSign(dg[i]) > 0
                    THEN {kspec} \cup {c \in Components : RSign(sc[i][c]) > 0}
                    ELSE {c \in Components : RSign(sc[i][c]) < 0}
        ratio(x) == IF x = kspec THEN n[kspec] ELSE RDiv(n[x], fabs(sc[i][x]))
    IN  /\ zeroed \in cands
        /\ \A x \in cands : RLe(ratio(zeroed), ratio(x))
        /\ \A x \in cands : (x \in Components /\ zeroed \in Components /\ x < zeroed)
                               => ratio(x) # ratio(zeroed)
        /\ fabs(dssApplied) = ratio(zeroed)
        /\ \A x \in Species : RSign(soln[x]) >= 0

\* C5 (as stated): a reaction that is not skipped and has s = 0 makes the call
\* return at once with code 1 or 2, the later reactions untouched.
C5_DegenerateAlwaysReturns ==
  \A i \in Rxns :
    branch[i] \in {"eliminate", "zerobound"} =>
      /\ pc = "done"
      /\ ret \in {1, 2}
      /\ irxn = i
      /\ \A i2 \in Rxns : i2 > i => (branch[i2] = "none" /\ ds[ir(i2)] = entry.ds[ir(i2)])

\* C5 (amended): a reaction that is not skipped and has s = 0 makes the call
\* return at once with code 1 or 2, the later reactions untouched, when no
\* participant that bounds the reaction has zero moles (dss # 0); when such a
\* participant has zero moles (dss = 0) the reaction changes neither soln,
\* TPhMoles nor its ds entry and the loop goes on with the next reaction.
C5_DegenerateReturnsUnlessZeroBound ==
  \A i \in Rxns :
    LET kspec   == ir(i)
        n       == entry.soln
        blocked == IF RSign(dg[i]) > 0
                   THEN \/ n[kspec] = Zero
                        \/ \E c \in Components : RSign(sc[i][c]) > 0 /\ n[c] = Zero
                   ELSE \E c \in Components : RSign(sc[i][c]) < 0 /\ n[c] = Zero
    IN  /\ branch[i] = "eliminate" =>
              /\ ~blocked
              /\ pc = "done"
              /\ ret \in {1, 2}
              /\ irxn = i
              /\ \A i2 \in Rxns :
                   i2 > i => (branch[i2] = "none" /\ ds[ir(i2)] = entry.ds[ir(i2)])
        /\ branch[i] = "zerobound" =>
              /\ blocked
              /\ ds[kspec] = entry.ds[kspec]
              /\ irxn > i
              /\ (irxn = i + 1 /\ pc = "loop") =>
                    (soln = entry.soln /\ TPhMoles = entry.TPhMoles)

C5_Witness ==
  /\ pc = "done"
  /\ m_numRxnRdc = 2
  /\ branch[0] = "zerobound"
  /\ branch[1] = "eliminate"

\* C6 (as stated): after a call, the step of every reaction with
\* |dg| <= tolmaj2 is 0 and its status is the one it had on entry.
C6_ConvergedStepIsZero ==
  pc = "done" =>
    \A i \in Rxns :
      RLe(fabs(dg[i]), tolmaj2) =>
        (ds[ir(i)] = Zero /\ spStatus[i] = entry.spStatus[i])

\* C6 (amended): for a reaction with |dg| <= tolmaj2 a call leaves the step and
\* the status as they were on entry (a zero step stays zero, in a second call
\* too), unless the species has zero moles in a multispecies phase and the call
\* reaches it: then the step is set to 0 and the status kept when
\* dg >= -1.0e-4, and the step is set to 1.0e-10 and the status to MAJOR when
\* dg < -1.0e-4.
C6_ConvergedStepIsKept ==
  pc \in {"loop", "done"} =>
    \A i \in Rxns :
      RLe(fabs(dg[i]), tolmaj2) =>
        LET kspec   == ir(i)
            dead    == entry.soln[kspec] = Zero /\ Cardinality(Members(PhaseID[kspec])) > 1
            reached == branch[i] # "none"
            revive  == RLt(dg[i], Num(-1, 1, -4))
        IN  /\ ~(dead /\ reached) =>
                 (ds[kspec] = entry.ds[kspec] /\ spStatus[i] = entry.spStatus[i])
            /\ (dead /\ reached /\ ~revive) =>
                 (ds[kspec] = Zero /\ spStatus[i] = entry.spStatus[i])
            /\ (dead /\ reached /\ revive) =>
                 (ds[kspec] = Num(1, 1, -10) /\ spStatus[i] = 1)

C6_Witness ==
  /\ pc = "done"
  /\ calls = 2
  /\ \E i \in Rxns :
       /\ RLe(fabs(dg[i]), tolmaj2)
       /\ branch[i] = "converged"
       /\ ds[ir(i)] = Zero

\* C8: every step the call writes into ds is a descent direction,
\* ds[kspec] * dg[irxn] <= 0: a Newton step comes from s > 0 (it is opposite
\* in sign to dg) and a revived species gets its positive step only when
\* dg < 0.
C8_StepIsDescentDirection ==
  pc \in {"loop", "done"} =>
    \A i \in Rxns :
      /\ branch[i] \in {"newton", "alive", "dead"} =>
           RSign(RMul(ds[ir(i)], dg[i])) <= 0
      /\ branch[i] = "newton" => RSign(ds[ir(i)]) = -RSign(dg[i])
      /\ branch[i] = "alive" => (RSign(ds[ir(i)]) > 0 /\ RSign(dg[i]) < 0)

C8_Witness ==
  /\ pc = "done"
  /\ \E i \in Rxns :
       /\ branch[i] = "newton"
       /\ Cardinality(Members(PhaseID[ir(i)])) > 1
       /\ \E c \in Components : PhaseID[c] = PhaseID[ir(i)] /\ sc[i][c] # Zero

-----------------------------------------------------------------------------
(* Properties of vcs_Hessian_diag_adj, checked under SpecHessian.           *)

\* C4: for idealDiagonal > 0 and any nonideal term, the value returned is at
\* least (1/3) * idealDiagonal, hence strictly positive.
C4_DiagonalAtLeastOneThird ==
  hpc = "returned" =>
    /\ RLe(RMul(Num(1, 3, 0), hessianDiag_Ideal), diag)
    /\ RSign(diag) > 0

C4_Witness ==
  /\ hpc = "returned"
  /\ diag = RMul(Num(3334, 1, -4), hessianDiag_Ideal)

-----------------------------------------------------------------------------
(* Properties of vcs_line_search, checked under SpecLineSearch.             *)

\* C3 (as stated): whenever a nonzero step is returned, deltaG at the moved
\* composition has the sign of deltaGOrig or a strictly smaller magnitude.
C3_DescentOnEveryExit ==
  lpc = "moved" =>
    \/ RSign(deltaGNew) = RSign(deltaGOrig)
    \/ RLt(fabs(deltaGNew), fabs(deltaGOrig))

\* C3 (amended): whenever a nonzero step is returned that is a trial step
\* accepted by an acceptance test (neither an interpolated step nor the step
\* left after 10 unsuccessful bisections), deltaG at the moved composition has
\* the sign of deltaGOrig or a strictly smaller magnitude.
C3_DescentOnAcceptedTrial ==
  (lpc = "moved" /\ interp = Zero /\ its < 10) =>
    \/ RSign(deltaGNew) = RSign(deltaGOrig)
    \/ RLt(fabs(deltaGNew), fabs(deltaGOrig))

C3_Witness ==
  /\ lpc = "moved"
  /\ interp = Zero
  /\ its > 0
  /\ its < 10

\* C7: the step returned is 0 or has the sign of the proposed step and at most
\* its magnitude; it is 0 when deltaGOrig > 0 and d > 0, when deltaGOrig < 0
\* and d < 0, when deltaGOrig = 0 and when d = 0; an interpolated step lies
\* between 0 and the trial step it was interpolated from.
C7_StepShrunkNotReversed ==
  lpc \in {"returned", "moved"} =>
    /\ \/ dx = Zero
       \/ (RSign(dx) = RSign(dx_orig) /\ RLe(fabs(dx), fabs(dx_orig)))
    /\ (RSign(deltaGOrig) > 0 /\ RSign(dx_orig) > 0) => dx = Zero
    /\ (RSign(deltaGOrig) < 0 /\ RSign(dx_orig) < 0) => dx = Zero
    /\ RSign(deltaGOrig) = 0 => dx = Zero
    /\ RSign(dx_orig) = 0 => dx = Zero
    /\ interp # Zero =>
         (RSign(dx) = RSign(interp) /\ RLe(fabs(dx), fabs(interp)))

C7_Witness ==
  /\ lpc = "returned"
  /\ interp # Zero
  /\ its > 0

\* C10 (state part): deltaG is evaluated at d, d/2, d/4, ... in that order, at
\* most 10 times after the full step; the loop goes on only after a trial that
\* met no acceptance criterion, and after 10 such trials the step returned is
\* d/2^10, neither 0 nor d.
C10_Inv ==
  /\ Len(trials) <= 11
  /\ \A t \in 1..Len(trials) : trials[t] = RDiv(dx_orig, RInt(Pow2(t - 1)))
  /\ (lpc = "bisect" /\ Len(trials) > 0) =>
        /\ dx = trials[Len(trials)]
        /\ RSign(RMul(deltaG, deltaGOrig)) <= 0
        /\ RLt(RMul(IF Len(trials) = 1 THEN Num(8, 1, -1)
                     ELSE RSub(One, RDiv(Num(1, 1, -1), RInt(Pow2(Len(trials) - 1)))),
                    fabs(deltaGOrig)),
               fabs(deltaG))
  /\ (lpc \in {"returned", "moved"} /\ Len(trials) = 11 /\ its = 10) =>
        /\ dx = RDiv(dx_orig, RInt(1024))
        /\ dx # Zero
        /\ dx # dx_orig

\* C10 (step part): every step of the search moves it forward: the loop either returns or
\* counts one more of its at most 10 passes.
C10_Step ==
  /\ lpc = "start" => lpc' \in {"full", "returned"}
  /\ lpc = "full" => lpc' \in {"bisect", "returned"}
  /\ lpc = "bisect" =>
        \/ lpc' = "returned"
        \/ (lpc' = "bisect" /\ its' = its + 1 /\ its' <= 10)

\* C10: vcs_line_search always terminates: after the two initial evaluations
\* it tries d/2, d/4, ... in that order, at most 10 times, stops at the first
\* trial that meets an acceptance criterion, and otherwise returns d/2^10
\* (never 0 and never d).
C10_TerminatesWithinTenBisections ==
  []C10_Inv /\ [][C10_Step]_vars

C10_Witness ==
  /\ lpc = "returned"
  /\ its = 10
  /\ Len(trials) = 11

====
